---- MODULE Spec2Model ----
(***************************************************************************)
(* Execution-session orchestrator of jelly-afk/sandboxed.                  *)
(*                                                                         *)
(* The repository holds three versions of executeHandler:                  *)
(*   "ws"   src/cmd/api/execute.go  streaming over a websocket, 30 s       *)
(*          deadline, the wait goroutine closes done, the handler itself   *)
(*          forwards the logs;                                             *)
(*   "ws0"  src/unnamed/part_000    streaming over a websocket, no         *)
(*          deadline, a log goroutine closes done, the wait goroutine is   *)
(*          detached, the handler blocks on done;                          *)
(*   "http" src/unnamed/part_001    synchronous request/response, 30 s     *)
(*          deadline.                                                      *)
(* One session of one handler is modelled; variant is fixed at Init.       *)
(* The container runtime, the clock and the client are the environment.    *)
(*                                                                         *)
(* In execute.go the wait goroutine and the forwarding loop both call      *)
(* conn.WriteMessage with no lock between them. gorilla/websocket builds a *)
(* frame in the one write buffer of the connection and then flushes it, so *)
(* these calls are modelled in two steps (build, flush) and may overlap;   *)
(* an overlap the library detects panics. Where only one goroutine writes  *)
(* (before the goroutine starts, part_000, part_001) a write is one step.  *)
(***************************************************************************)
EXTENDS Integers, Sequences, FiniteSets, TLC

\* Bound of the model: the number of output chunks the program may produce.
MaxChunks == 2

\* Bounds of the model: the longest source text, in bytes, and the size of a
\* block of the archive (512 in archive/tar), small enough that texts of less
\* than a block, of exactly one block and of more than a block all occur.
MaxText == 4
BlockSize == 2

\* Mode 0644 of the archive entry, in decimal.
FileMode == 420

\* net/http status codes used by the handlers.
StatusOK == 200
StatusBadRequest == 400
StatusRequestTimeout == 408
StatusInternalServerError == 500

VARIABLES
    variant,        \* which executeHandler runs: "ws", "ws0", "http"
    text,           \* input.Text: the bytes of the source text
    buf,            \* the archive written through tw: a sequence of blocks
    pc,             \* position of the handler
    defers,         \* the handler's deferred calls, next to run first
    ctx,            \* "none", "background", "live", "expired", "cancelled"
    container,      \* runtime side: "none", "created", "running", "exited", "removed"
    calls,          \* runtime-client calls issued so far: <<[op, ok]>>
    logStream,      \* chunks the program has produced: <<[stream, seq]>>
    readPos,        \* chunks of logStream consumed through the log reader
    stdout,         \* execute.go: stdout buffer
    stderr,         \* execute.go: stderr buffer
    stdCopyBuf,     \* part_001: combined buffer
    line,           \* part_000: scanner.Text() of the last Scan
    wire,           \* writes to the client: <<[by, type, status, msg, chunks, enc, ok]>>
    writeErr,       \* websocket: a close message was written or a write failed
    writeBuf,       \* websocket: the frame built last in the connection's write buffer
    racing,         \* goroutines whose write call overlapped a flush of the other
    connClosed,     \* websocket: conn.Close() has run
    cliClosed,      \* runtime client: cli.Close() has run
    clientGone,     \* the client has disconnected
    respStatus,     \* http: status code of the written header, 0 before it is written
    done,           \* the done channel is closed
    waitPc,         \* position of the wait goroutine (ws, ws0)
    waitRes,        \* ContainerWait: "none", "pending", "status", "err"
    waitCase,       \* select case taken on the wait channels: "none", "err", "status", "timeout"
    logPc,          \* position of the log goroutine (ws0)
    atDeadline,     \* where the deadline found the handler: "none", "stdcopy", "elsewhere"
    raceOrder,      \* which came first while the wait was pending: "none", "exit", "deadline"
    removeRefused   \* the runtime itself failed a remove request that reached it

vars == <<variant, text, buf, pc, defers, ctx, container, calls, logStream, readPos, stdout,
          stderr, stdCopyBuf, line, wire, writeErr, writeBuf, racing, connClosed,
          cliClosed,
          clientGone, respStatus, done, waitPc, waitRes, waitCase, logPc,
          raceOrder, atDeadline, removeRefused>>

\* Groups used in UNCHANGED clauses.
outVars   == <<wire, writeErr, writeBuf, racing, respStatus>>
bufVars   == <<readPos, stdout, stderr, stdCopyBuf, line>>
envVars   == <<container, logStream, clientGone, raceOrder, atDeadline,
               removeRefused>>
connVars  == <<connClosed, cliClosed>>
taskVars  == <<done, waitPc, waitRes, waitCase, logPc>>

Variants == {"ws", "ws0", "http"}
Streams == {"stdout", "stderr"}

(***************************************************************************)
(* Helpers                                                                 *)
(***************************************************************************)

\* http.StatusText
StatusText(code) ==
    CASE code = StatusBadRequest -> "Bad Request"
      [] code = StatusRequestTimeout -> "Request Timeout"
      [] code = StatusInternalServerError -> "Internal Server Error"
      [] OTHER -> "OK"

\* ctx.Done() is closed: the deadline has passed or cancel() has run.
CtxDone == ctx \in {"expired", "cancelled"}

\* A runtime-client call made under ctx fails when ctx is done, and may fail
\* for reasons of the runtime otherwise.
RtResults == IF CtxDone THEN {FALSE} ELSE BOOLEAN

\* ContainerWait and ContainerLogs also fail when the runtime has no such
\* container any more (HostConfig.AutoRemove has removed it).
RtResultsOn == IF CtxDone \/ container = "removed" THEN {FALSE} ELSE BOOLEAN

\* The container exists on the runtime side.
ContainerExists == container \in {"created", "running", "exited"}

\* The log reader is at end of stream: the process is gone and all is read.
AtEOF == container \in {"exited", "removed"} /\ readPos = Len(logStream)

\* The frame a call of conn.WriteMessage / conn.WriteJSON passes.
Frame(type, status, chunks, enc) ==
    [type |-> type, status |-> status,
     msg |-> IF type = "close" THEN StatusText(status) ELSE "",
     chunks |-> chunks, enc |-> enc]

NoFrame == Frame("none", 0, <<>>, "raw")

\* The entry of wire for frame f handed to the network by goroutine by.
Written(by, f, ok) ==
    [by |-> by, type |-> f.type, status |-> f.status, msg |-> f.msg,
     chunks |-> f.chunks, enc |-> f.enc, ok |-> ok]

\* gorilla/websocket refuses every write after a close message was written
\* (ErrCloseSent) or a write failed, and every write to a closed connection.
WriteRefused == connClosed \/ writeErr

\* Results of a write to the websocket: refused, or else it succeeds, except
\* that a write towards a client that is gone may report the broken connection.
ConnWriteResults ==
    IF WriteRefused THEN {FALSE}
    ELSE IF clientGone THEN BOOLEAN ELSE {TRUE}

\* conn.WriteMessage / conn.WriteJSON where no other goroutine writes
ConnWrite(by, frame, ok) ==
    /\ wire' = Append(wire, Written(by, frame, ok))
    /\ writeErr' = (writeErr \/ ~ok \/ frame.type = "close")
    /\ UNCHANGED <<writeBuf, racing, respStatus>>

\* The two goroutines of execute.go that write to conn, and whether one is
\* inside conn.WriteMessage, its frame built and not yet flushed.
Other(g) == IF g = "main" THEN "wait" ELSE "main"
Pending(g) ==
    IF g = "main" THEN pc \in {"flushError", "flushStdout", "flushStderr"}
    ELSE waitPc = "flush"

\* conn.WriteMessage, first step: the frame is built in the write buffer of
\* the connection, over whatever the other goroutine has built there.
BeginMessage(frame) ==
    /\ writeBuf' = frame
    /\ UNCHANGED <<wire, writeErr, racing, respStatus>>

\* conn.WriteMessage, second step: under the write mutex the call is refused,
\* or the content of the write buffer goes to the network; the connection
\* latches when the message type of the call (own.type) is close. A call of
\* the other goroutine that is between its two steps has now overlapped.
FlushFrame(by, own, ok) ==
    /\ wire' = Append(wire, Written(by, IF WriteRefused THEN own ELSE writeBuf, ok))
    /\ writeErr' = (writeErr \/ ~ok \/ own.type = "close")
    /\ writeBuf' = IF Pending(Other(by)) THEN writeBuf ELSE NoFrame
    /\ racing' = (racing \ {by}) \cup
                     (IF ~WriteRefused /\ Pending(Other(by)) THEN {Other(by)} ELSE {})
    /\ UNCHANGED respStatus

\* conn.WriteMessage panics ("concurrent write to websocket connection") in a
\* call that overlapped a flush: before its own flush, or after it.
FlushPanic(by, own) ==
    \/ /\ racing' = racing \ {by}
       /\ UNCHANGED <<wire, writeErr, writeBuf, respStatus>>
    \/ \E ok \in ConnWriteResults : FlushFrame(by, own, ok)

\* Results of a write to the http.ResponseWriter: it fails only when the
\* connection to the client is broken.
RespWriteResults == IF clientGone THEN BOOLEAN ELSE {TRUE}

\* application.errorResponse: the envelope is encoded to w, which writes the
\* header with status 200 if none was written; status is not passed to
\* w.WriteHeader. When Encode fails, WriteHeader(500) comes after the Write and
\* changes nothing.
errorResponse(status, message) ==
    /\ \E ok \in RespWriteResults :
          wire' = Append(wire, [by |-> "main", type |-> "body", status |-> status,
                                msg |-> message, chunks |-> <<>>, enc |-> "json",
                                ok |-> ok])
    /\ respStatus' = IF respStatus = 0 THEN StatusOK ELSE respStatus
    /\ UNCHANGED <<writeErr, writeBuf, racing>>

\* How a handler reports a failure: a JSON error envelope (http) or a close
\* frame carrying the status text (ws, ws0).
Fail(status, message) ==
    IF variant = "http"
    THEN errorResponse(status, message)
    ELSE \E ok \in ConnWriteResults :
            ConnWrite("main", Frame("close", status, <<>>, "raw"), ok)

\* return: the deferred calls run next.
Return == pc' = "defer"

(***************************************************************************)
(* Initial state                                                           *)
(***************************************************************************)
Init ==
    /\ variant \in Variants
    /\ text = <<>>
    /\ buf = <<>>
    /\ pc = IF variant = "http" THEN "decode" ELSE "upgrade"
    /\ defers = <<>>
    /\ ctx = "none"
    /\ container = "none"
    /\ calls = <<>>
    /\ logStream = <<>>
    /\ readPos = 0
    /\ stdout = <<>>
    /\ stderr = <<>>
    /\ stdCopyBuf = <<>>
    /\ line = <<>>
    /\ wire = <<>>
    /\ writeErr = FALSE
    /\ writeBuf = NoFrame
    /\ racing = {}
    /\ connClosed = FALSE
    /\ cliClosed = FALSE
    /\ clientGone = FALSE
    /\ respStatus = 0
    /\ done = FALSE
    /\ waitPc = "idle"
    /\ waitRes = "none"
    /\ waitCase = "none"
    /\ logPc = "idle"
    /\ raceOrder = "none"
    /\ atDeadline = "none"
    /\ removeRefused = FALSE

(***************************************************************************)
(* The handler up to the start of the container (all three versions)       *)
(***************************************************************************)

\* upgrader.Upgrade (ws, ws0)
Upgrade ==
    /\ pc = "upgrade"
    /\ \E ok \in BOOLEAN :
          IF ok
          THEN /\ pc' = "readJSON"
               /\ defers' = <<"connClose">> \o defers
               /\ UNCHANGED outVars
          ELSE /\ errorResponse(StatusInternalServerError, "Failed to upgrade connection")
               /\ pc' = "returned"
               /\ UNCHANGED defers
    /\ UNCHANGED <<variant, text, buf, ctx, calls, bufVars, envVars, connVars, taskVars>>

\* conn.ReadJSON(&input) (ws, ws0) / json.NewDecoder(r.Body).Decode(&input) (http)
ReadInput ==
    /\ pc \in {"readJSON", "decode"}
    /\ \E ok \in BOOLEAN :
          IF ok
          THEN pc' = "newClient" /\ UNCHANGED outVars
          ELSE /\ Fail(StatusBadRequest, "Invalid request payload")
               /\ Return
    /\ UNCHANGED <<variant, text, buf, defers, ctx, calls, bufVars, envVars, connVars, taskVars>>

\* client.NewClientWithOpts
NewClient ==
    /\ pc = "newClient"
    /\ \E ok \in BOOLEAN :
          IF ok
          THEN /\ pc' = "context"
               /\ defers' = <<"cliClose">> \o defers
               /\ UNCHANGED outVars
          ELSE /\ Fail(StatusInternalServerError, "Failed to create Docker client")
               /\ Return
               /\ UNCHANGED defers
    /\ UNCHANGED <<variant, text, buf, ctx, calls, bufVars, envVars, connVars, taskVars>>

\* context.WithTimeout(context.Background(), 30*time.Second); defer cancel()
\* (ws, http); ctx := context.Background() (ws0)
NewContext ==
    /\ pc = "context"
    /\ pc' = "create"
    /\ IF variant = "ws0"
       THEN ctx' = "background" /\ UNCHANGED defers
       ELSE ctx' = "live" /\ defers' = <<"cancel">> \o defers
    /\ UNCHANGED <<variant, text, buf, calls, bufVars, outVars, envVars, connVars, taskVars>>

\* defer func() { _ = cli.ContainerRemove(ctx, resp.ID, {Force: true}) }()
DeferRemoveNever == defers
DeferRemove == <<"remove">> \o defers

ContainerCreateDeferFirst ==
    /\ pc = "create"
    /\ \E ok \in RtResults :
          /\ calls' = Append(calls, [op |-> "create", ok |-> ok])
          /\ IF ok
             THEN /\ container' = "created"
                  /\ defers' = <<"twClose">> \o DeferRemove
                  /\ pc' = "package"
                  /\ UNCHANGED outVars
             ELSE /\ Fail(StatusInternalServerError, "Failed to create container")
                  /\ Return
                  /\ defers' = DeferRemove
                  /\ UNCHANGED container
    /\ UNCHANGED <<variant, text, buf, ctx, bufVars, logStream, clientGone, raceOrder,
                   atDeadline, removeRefused, connVars, taskVars>>

\* cli.ContainerCreate, and on success the deferred remove and tar.NewWriter
\* with its deferred tw.Close()
ContainerCreate ==
    /\ pc = "create"
    /\ \E ok \in RtResults :
          /\ calls' = Append(calls, [op |-> "create", ok |-> ok])
          /\ IF ok
             THEN /\ container' = "created"
                  /\ defers' = <<"twClose">> \o DeferRemove
                  /\ pc' = "package"
                  /\ UNCHANGED outVars
             ELSE /\ Fail(StatusInternalServerError, "Failed to create container")
                  /\ Return
                  /\ UNCHANGED <<container, defers>>
    /\ UNCHANGED <<variant, text, buf, ctx, bufVars, logStream, clientGone, raceOrder,
                   atDeadline, removeRefused, connVars, taskVars>>

\* A byte of the source text; 0 is also the byte archive/tar pads with.
Bytes == {0, 1}

\* The source texts of at most MaxText bytes, the empty text included.
Texts == UNION {[1..n -> Bytes] : n \in 0..MaxText}

Zeros(n) == [i \in 1..n |-> 0]

\* The blocks of an archive: a header block, or a block of BlockSize bytes.
HeaderBlock(name, mode, size) ==
    [kind |-> "header", name |-> name, mode |-> mode, size |-> size, bytes |-> <<>>]
DataBlock(bytes) ==
    [kind |-> "data", name |-> "", mode |-> 0, size |-> 0, bytes |-> bytes]

\* The bytes cut into blocks; bytes short of a whole block are left out.
Blocks(bytes) ==
    [i \in 1..(Len(bytes) \div BlockSize) |->
        DataBlock(SubSeq(bytes, (i - 1) * BlockSize + 1, i * BlockSize))]

\* Size: int64(len(input.Text))
HeaderSizePadded(t) == Len(t) + ((BlockSize - (Len(t) % BlockSize)) % BlockSize)
HeaderSize(t) == Len(t)

\* tw.WriteHeader(&tar.Header{Name: "main.go", Mode: 0644, Size: ...})
TarWriteHeader(t) == <<HeaderBlock("main.go", FileMode, HeaderSize(t))>>

\* tw.Write([]byte(input.Text)) and tw.Close(): the bytes of the text, zeros up
\* to the end of the block, and the two zero blocks that end an archive.
TarWriteClose(t) ==
    Blocks(t \o Zeros((BlockSize - (Len(t) % BlockSize)) % BlockSize))
        \o <<DataBlock(Zeros(BlockSize)), DataBlock(Zeros(BlockSize))>>

\* tw.WriteHeader, tw.Write, tw.Close into buf; a failure leaves in buf what was
\* written before it.
Package ==
    /\ pc = "package"
    /\ \E res \in {"ok", "Failed to write tar header", "Failed to write file to tar",
                   "Failed to close tar writer"} :
          /\ buf' = CASE res = "ok" -> TarWriteHeader(text) \o TarWriteClose(text)
                      [] res = "Failed to write tar header" -> <<>>
                      [] res = "Failed to write file to tar" -> TarWriteHeader(text)
                      [] OTHER -> TarWriteHeader(text) \o Blocks(text)
          /\ IF res = "ok"
             THEN pc' = "copy" /\ UNCHANGED outVars
             ELSE Fail(StatusInternalServerError, res) /\ Return
    /\ UNCHANGED <<variant, text, defers, ctx, calls, bufVars, envVars, connVars,
                   taskVars>>

\* cli.CopyToContainer
CopyToContainerNoReturn ==
    /\ pc = "copy"
    /\ \E ok \in RtResults :
          /\ calls' = Append(calls, [op |-> "copy", ok |-> ok])
          /\ IF ok
             THEN pc' = "start" /\ UNCHANGED outVars
             ELSE Fail(StatusInternalServerError, "Failed to copy files to container")
                  /\ pc' = "start"
    /\ UNCHANGED <<variant, text, buf, defers, ctx, bufVars, envVars, connVars, taskVars>>

CopyToContainer ==
    /\ pc = "copy"
    /\ \E ok \in RtResults :
          /\ calls' = Append(calls, [op |-> "copy", ok |-> ok])
          /\ IF ok
             THEN pc' = "start" /\ UNCHANGED outVars
             ELSE Fail(StatusInternalServerError, "Failed to copy files to container")
                  /\ Return
    /\ UNCHANGED <<variant, text, buf, defers, ctx, bufVars, envVars, connVars, taskVars>>

\* cli.ContainerStart; what follows a successful start differs per version:
\* ContainerLogs (ws), the two goroutines and <-done (ws0), ContainerWait (http)
ContainerStart ==
    /\ pc = "start"
    /\ \E ok \in RtResults :
          /\ calls' = Append(calls, [op |-> "start", ok |-> ok])
          /\ IF ok
             THEN /\ container' = "running"
                  /\ pc' = CASE variant = "ws" -> "logs"
                             [] variant = "ws0" -> "spawn"
                             [] OTHER -> "waitCall"
                  /\ UNCHANGED outVars
             ELSE /\ Fail(StatusInternalServerError, "Failed to start container")
                  /\ Return
                  /\ UNCHANGED container
    /\ UNCHANGED <<variant, text, buf, defers, ctx, bufVars, logStream, clientGone, raceOrder,
                   atDeadline, removeRefused, connVars, taskVars>>

(***************************************************************************)
(* execute.go ("ws") after the start: logs, the wait goroutine, the loop   *)
(***************************************************************************)

\* cli.ContainerLogs (Follow), defer reader.Close(), done := make(chan struct{}),
\* go func() {...}()
ContainerLogs ==
    /\ pc = "logs"
    /\ \E ok \in RtResultsOn :
          /\ calls' = Append(calls, [op |-> "logs", ok |-> ok])
          /\ IF ok
             THEN /\ defers' = <<"readerClose">> \o defers
                  /\ waitPc' = "call"
                  /\ pc' = "loop"
                  /\ UNCHANGED outVars
             ELSE /\ Fail(StatusInternalServerError, "Failed to get container logs")
                  /\ Return
                  /\ UNCHANGED <<defers, waitPc>>
    /\ UNCHANGED <<variant, text, buf, ctx, bufVars, envVars, connVars, done, waitRes,
                   waitCase, logPc>>

\* go func: statusCh, errCh := cli.ContainerWait(ctx, ...) (ws, ws0)
WaitCall ==
    /\ waitPc = "call"
    /\ \E ok \in RtResultsOn :
          /\ calls' = Append(calls, [op |-> "wait", ok |-> ok])
          /\ waitRes' = IF ok THEN "pending" ELSE "err"
    /\ waitPc' = "select"
    /\ UNCHANGED <<variant, text, buf, pc, defers, ctx, bufVars, outVars, envVars, connVars,
                   done, waitCase, logPc>>

\* The cases of a select on errCh, statusCh and ctx.Done() that are ready; Go
\* takes any one of the ready cases.
ReadyCases ==
    (IF waitRes = "err" THEN {"err"} ELSE {})
        \cup (IF waitRes = "status" THEN {"status"} ELSE {})
        \cup (IF CtxDone /\ variant # "ws0" THEN {"timeout"} ELSE {})

\* go func: select { case err := <-errCh / case <-statusCh / case <-ctx.Done() }
WaitSelect ==
    /\ waitPc = "select"
    /\ \E c \in ReadyCases :
          /\ waitCase' = c
          /\ waitRes' = "none"
          /\ waitPc' = CASE variant = "ws0" -> "exit"
                         [] c = "status" -> "close"
                         [] OTHER -> "write"
    /\ UNCHANGED <<variant, text, buf, pc, defers, ctx, calls, bufVars, outVars, envVars,
                   connVars, done, logPc>>

\* The message type of the close frame the timeout case writes.
TimeoutFrameAsText == "text"
TimeoutFrame == "close"

\* The frame of the err case and of the ctx.Done() case.
WaitFrame ==
    IF waitCase = "timeout"
    THEN Frame(TimeoutFrame, StatusRequestTimeout, <<>>, "raw")
    ELSE Frame("close", StatusInternalServerError, <<>>, "raw")

\* go func: conn.WriteMessage(websocket.CloseMessage, ...) of the err and the
\* ctx.Done() cases, up to the built frame
WaitWrite ==
    /\ waitPc = "write"
    /\ IF WriteRefused
       THEN ConnWrite("wait", WaitFrame, FALSE) /\ waitPc' = "close"
       ELSE BeginMessage(WaitFrame) /\ waitPc' = "flush"
    /\ UNCHANGED <<variant, text, buf, pc, defers, ctx, calls, bufVars, envVars, connVars,
                   done, waitRes, waitCase, logPc>>

\* go func: the flush of that conn.WriteMessage
WaitWriteFlush ==
    /\ waitPc = "flush"
    /\ \E ok \in ConnWriteResults : FlushFrame("wait", WaitFrame, ok)
    /\ waitPc' = "close"
    /\ UNCHANGED <<variant, text, buf, pc, defers, ctx, calls, bufVars, envVars, connVars,
                   done, waitRes, waitCase, logPc>>

\* go func: conn.WriteMessage panics; nothing recovers a panic of this
\* goroutine, the process ends with every goroutine in it.
WaitWritePanic ==
    /\ waitPc = "flush"
    /\ "wait" \in racing
    /\ FlushPanic("wait", WaitFrame)
    /\ waitPc' = "crashed"
    /\ pc' = "crashed"
    /\ UNCHANGED <<variant, text, buf, defers, ctx, calls, bufVars, envVars, connVars,
                   done, waitRes, waitCase, logPc>>

\* go func: close(done)
WaitCloseDone ==
    /\ waitPc = "close"
    /\ done' = TRUE
    /\ waitPc' = "exit"
    /\ UNCHANGED <<variant, text, buf, pc, defers, ctx, calls, bufVars, outVars, envVars,
                   connVars, waitRes, waitCase, logPc>>

\* for { select { case <-done: return; default: ... } }
LoopSelect ==
    /\ pc = "loop"
    /\ IF done THEN Return ELSE pc' = "stdcopy"
    /\ UNCHANGED <<variant, text, buf, defers, ctx, calls, bufVars, outVars, envVars,
                   connVars, taskVars>>

\* bytes.Buffer.Write as stdcopy.StdCopy uses it: the chunk goes to the end.
BufferWrite(b, c) == Append(b, c)

\* stdcopy.StdCopy(stdout, stderr, reader): one frame is read and copied to the
\* buffer of its stream; StdCopy goes on reading.
StdCopyFrame ==
    /\ pc = "stdcopy"
    /\ variant = "ws"
    /\ readPos < Len(logStream)
    /\ LET c == logStream[readPos + 1] IN
          /\ stdout' = IF c.stream = "stdout" THEN BufferWrite(stdout, c) ELSE stdout
          /\ stderr' = IF c.stream = "stderr" THEN BufferWrite(stderr, c) ELSE stderr
    /\ readPos' = readPos + 1
    /\ UNCHANGED <<variant, text, buf, pc, defers, ctx, calls, stdCopyBuf, line, outVars,
                   envVars, connVars, taskVars>>

\* stdcopy.StdCopy returns nil at the end of the stream.
StdCopyEOF ==
    /\ pc = "stdcopy"
    /\ variant = "ws"
    /\ AtEOF
    /\ pc' = "writeStdout"
    /\ UNCHANGED <<variant, text, buf, defers, ctx, calls, bufVars, outVars, envVars,
                   connVars, taskVars>>

\* stdcopy.StdCopy returns an error (the read fails, as it does once ctx is
\* done, or a frame is malformed): conn.WriteMessage of the close frame, up to
\* the built frame.
StdCopyError ==
    /\ pc = "stdcopy"
    /\ variant = "ws"
    /\ LET f == Frame("close", StatusInternalServerError, <<>>, "raw") IN
          IF WriteRefused
          THEN ConnWrite("main", f, FALSE) /\ Return
          ELSE BeginMessage(f) /\ pc' = "flushError"
    /\ UNCHANGED <<variant, text, buf, defers, ctx, calls, bufVars, envVars, connVars, taskVars>>

\* The flush of that conn.WriteMessage; return.
StdCopyErrorFlush ==
    /\ pc = "flushError"
    /\ \E ok \in ConnWriteResults :
          FlushFrame("main", Frame("close", StatusInternalServerError, <<>>, "raw"), ok)
    /\ Return
    /\ UNCHANGED <<variant, text, buf, defers, ctx, calls, bufVars, envVars, connVars, taskVars>>

\* stdout.Reset() after the write
Reset(b) == <<>>

\* if stdout.Len() > 0 { conn.WriteMessage(websocket.TextMessage, stdout.Bytes()) ... },
\* up to the built frame
WriteStdout ==
    /\ pc = "writeStdout"
    /\ IF Len(stdout) = 0
       THEN pc' = "writeStderr" /\ UNCHANGED outVars
       ELSE IF WriteRefused
            THEN ConnWrite("main", Frame("text", 0, stdout, "raw"), FALSE) /\ Return
            ELSE BeginMessage(Frame("text", 0, stdout, "raw")) /\ pc' = "flushStdout"
    /\ UNCHANGED <<variant, text, buf, defers, ctx, calls, bufVars, envVars, connVars, taskVars>>

\* The flush of that conn.WriteMessage; return on an error, else stdout.Reset()
WriteStdoutFlush ==
    /\ pc = "flushStdout"
    /\ \E ok \in ConnWriteResults :
          /\ FlushFrame("main", Frame("text", 0, stdout, "raw"), ok)
          /\ IF ok
             THEN stdout' = Reset(stdout) /\ pc' = "writeStderr"
             ELSE Return /\ UNCHANGED stdout
    /\ UNCHANGED <<variant, text, buf, defers, ctx, calls, readPos, stderr, stdCopyBuf, line,
                   envVars, connVars, taskVars>>

\* if stderr.Len() > 0 { conn.WriteMessage(websocket.TextMessage, stderr.Bytes()) ... },
\* up to the built frame
WriteStderr ==
    /\ pc = "writeStderr"
    /\ IF Len(stderr) = 0
       THEN pc' = "loop" /\ UNCHANGED outVars
       ELSE IF WriteRefused
            THEN ConnWrite("main", Frame("text", 0, stderr, "raw"), FALSE) /\ Return
            ELSE BeginMessage(Frame("text", 0, stderr, "raw")) /\ pc' = "flushStderr"
    /\ UNCHANGED <<variant, text, buf, defers, ctx, calls, bufVars, envVars, connVars, taskVars>>

\* The flush of that conn.WriteMessage; return on an error, else stderr.Reset()
WriteStderrFlush ==
    /\ pc = "flushStderr"
    /\ \E ok \in ConnWriteResults :
          /\ FlushFrame("main", Frame("text", 0, stderr, "raw"), ok)
          /\ IF ok
             THEN stderr' = Reset(stderr) /\ pc' = "loop"
             ELSE Return /\ UNCHANGED stderr
    /\ UNCHANGED <<variant, text, buf, defers, ctx, calls, readPos, stdout, stdCopyBuf, line,
                   envVars, connVars, taskVars>>

\* The frame of the conn.WriteMessage the handler is in.
MainFrame ==
    CASE pc = "flushStdout" -> Frame("text", 0, stdout, "raw")
      [] pc = "flushStderr" -> Frame("text", 0, stderr, "raw")
      [] OTHER -> Frame("close", StatusInternalServerError, <<>>, "raw")

\* conn.WriteMessage panics in the handler: the deferred calls run while the
\* panic unwinds, and net/http recovers it.
MainWritePanic ==
    /\ Pending("main")
    /\ "main" \in racing
    /\ FlushPanic("main", MainFrame)
    /\ Return
    /\ UNCHANGED <<variant, text, buf, defers, ctx, calls, bufVars, envVars, connVars, taskVars>>

(***************************************************************************)
(* part_000 ("ws0") after the start: the log goroutine, the wait goroutine *)
(* (WaitCall, WaitSelect above), <-done                                    *)
(***************************************************************************)

\* done := make(chan struct{}); go func() {logs}(); go func() {wait}()
Spawn ==
    /\ pc = "spawn"
    /\ logPc' = "logs"
    /\ waitPc' = "call"
    /\ pc' = "recvDone"
    /\ UNCHANGED <<variant, text, buf, defers, ctx, calls, bufVars, outVars, envVars,
                   connVars, done, waitRes, waitCase>>

\* log goroutine: cli.ContainerLogs (Follow); on an error a close frame and
\* return, done stays open
LogOpen ==
    /\ logPc = "logs"
    /\ \E ok \in RtResultsOn :
          /\ calls' = Append(calls, [op |-> "logs", ok |-> ok])
          /\ IF ok
             THEN logPc' = "scan" /\ UNCHANGED outVars
             ELSE /\ \E w \in ConnWriteResults :
                        ConnWrite("log", Frame("close", StatusInternalServerError, <<>>, "raw"), w)
                  /\ logPc' = "exit"
    /\ UNCHANGED <<variant, text, buf, pc, defers, ctx, bufVars, envVars, connVars, done,
                   waitPc, waitRes, waitCase>>

\* log goroutine: scanner.Scan() returns true with the next line
Scan ==
    /\ logPc = "scan"
    /\ readPos < Len(logStream)
    /\ line' = <<logStream[readPos + 1]>>
    /\ readPos' = readPos + 1
    /\ logPc' = "writeJSON"
    /\ UNCHANGED <<variant, text, buf, pc, defers, ctx, calls, stdout, stderr, stdCopyBuf,
                   outVars, envVars, connVars, done, waitPc, waitRes, waitCase>>

\* log goroutine: scanner.Scan() returns false at the end of the stream
ScanEOF ==
    /\ logPc = "scan"
    /\ AtEOF
    /\ logPc' = "closeDone"
    /\ UNCHANGED <<variant, text, buf, pc, defers, ctx, calls, bufVars, outVars, envVars,
                   connVars, done, waitPc, waitRes, waitCase>>

\* log goroutine: scanner.Scan() returns false on a read error
ScanError ==
    /\ logPc = "scan"
    /\ logPc' = "closeDone"
    /\ UNCHANGED <<variant, text, buf, pc, defers, ctx, calls, bufVars, outVars, envVars,
                   connVars, done, waitPc, waitRes, waitCase>>

\* log goroutine: conn.WriteJSON(scanner.Text()); on an error return, done
\* stays open
LogWriteJSON ==
    /\ logPc = "writeJSON"
    /\ \E ok \in ConnWriteResults :
          /\ ConnWrite("log", Frame("text", 0, line, "json"), ok)
          /\ logPc' = IF ok THEN "scan" ELSE "exit"
    /\ UNCHANGED <<variant, text, buf, pc, defers, ctx, calls, bufVars, envVars, connVars,
                   done, waitPc, waitRes, waitCase>>

\* log goroutine: close(done)
LogCloseDone ==
    /\ logPc = "closeDone"
    /\ done' = TRUE
    /\ logPc' = "exit"
    /\ UNCHANGED <<variant, text, buf, pc, defers, ctx, calls, bufVars, outVars, envVars,
                   connVars, waitPc, waitRes, waitCase>>

\* <-done
RecvDone ==
    /\ pc = "recvDone"
    /\ done
    /\ Return
    /\ UNCHANGED <<variant, text, buf, defers, ctx, calls, bufVars, outVars, envVars,
                   connVars, taskVars>>

(***************************************************************************)
(* part_001 ("http") after the start: wait, logs, response                 *)
(***************************************************************************)

\* statusCh, errCh := cli.ContainerWait(ctx, ...)
ContainerWait ==
    /\ pc = "waitCall"
    /\ \E ok \in RtResultsOn :
          /\ calls' = Append(calls, [op |-> "wait", ok |-> ok])
          /\ waitRes' = IF ok THEN "pending" ELSE "err"
    /\ pc' = "select"
    /\ UNCHANGED <<variant, text, buf, defers, ctx, bufVars, outVars, envVars, connVars,
                   done, waitPc, waitCase, logPc>>

\* select { case err := <-errCh / case <-statusCh / case <-ctx.Done() }
HttpSelect ==
    /\ pc = "select"
    /\ \E c \in ReadyCases :
          /\ waitCase' = c
          /\ waitRes' = "none"
          /\ CASE c = "err" ->
                    /\ errorResponse(StatusInternalServerError, "Error waiting for container")
                    /\ Return
               [] c = "timeout" ->
                    /\ errorResponse(StatusRequestTimeout, "Execution timed out")
                    /\ Return
               [] OTHER -> pc' = "httpLogs" /\ UNCHANGED outVars
    /\ UNCHANGED <<variant, text, buf, defers, ctx, calls, bufVars, envVars, connVars, done,
                   waitPc, logPc>>

\* logs, err := cli.ContainerLogs(ctx, ...); defer logs.Close()
HttpLogs ==
    /\ pc = "httpLogs"
    /\ \E ok \in RtResultsOn :
          /\ calls' = Append(calls, [op |-> "logs", ok |-> ok])
          /\ IF ok
             THEN /\ defers' = <<"logsClose">> \o defers
                  /\ pc' = "httpStdcopy"
                  /\ UNCHANGED outVars
             ELSE /\ errorResponse(StatusInternalServerError, "Failed to get container logs")
                  /\ Return
                  /\ UNCHANGED defers
    /\ UNCHANGED <<variant, text, buf, ctx, bufVars, envVars, connVars, taskVars>>

\* stdcopy.StdCopy(stdCopyBuf, stdCopyBuf, logs): one frame is copied
HttpStdCopyFrame ==
    /\ pc = "httpStdcopy"
    /\ readPos < Len(logStream)
    /\ stdCopyBuf' = BufferWrite(stdCopyBuf, logStream[readPos + 1])
    /\ readPos' = readPos + 1
    /\ UNCHANGED <<variant, text, buf, pc, defers, ctx, calls, stdout, stderr, line, outVars,
                   envVars, connVars, taskVars>>

\* stdcopy.StdCopy returns nil at the end of the stream
HttpStdCopyEOFEarly ==
    /\ pc = "httpStdcopy"
    /\ pc' = "respond"
    /\ UNCHANGED <<variant, text, buf, defers, ctx, calls, bufVars, outVars, envVars,
                   connVars, taskVars>>

HttpStdCopyEOF ==
    /\ pc = "httpStdcopy"
    /\ AtEOF
    /\ pc' = "respond"
    /\ UNCHANGED <<variant, text, buf, defers, ctx, calls, bufVars, outVars, envVars,
                   connVars, taskVars>>

\* stdcopy.StdCopy returns an error
HttpStdCopyError ==
    /\ pc = "httpStdcopy"
    /\ errorResponse(StatusInternalServerError, "Failed to read container logs")
    /\ Return
    /\ UNCHANGED <<variant, text, buf, defers, ctx, calls, bufVars, envVars, connVars, taskVars>>

\* w.WriteHeader(http.StatusOK); json.NewEncoder(w).Encode(response), and
\* errorResponse when Encode fails
Respond ==
    /\ pc = "respond"
    /\ \E ok \in RespWriteResults :
          LET body == [by |-> "main", type |-> "body", status |-> StatusOK,
                       msg |-> "success", chunks |-> stdCopyBuf, enc |-> "json",
                       ok |-> ok]
              err == [by |-> "main", type |-> "body",
                      status |-> StatusInternalServerError,
                      msg |-> "Failed to encode response", chunks |-> <<>>,
                      enc |-> "json", ok |-> FALSE]
          IN  wire' = IF ok THEN Append(wire, body) ELSE wire \o <<body, err>>
    /\ respStatus' = IF respStatus = 0 THEN StatusOK ELSE respStatus
    /\ Return
    /\ UNCHANGED <<variant, text, buf, defers, ctx, calls, bufVars, writeErr, writeBuf,
                   racing, envVars, connVars, taskVars>>

(***************************************************************************)
(* The deferred calls, last registered first                               *)
(***************************************************************************)

\* _ = cli.ContainerRemove(ctx, resp.ID, container.RemoveOptions{Force: true}):
\* under a ctx that is done the request fails before it reaches the runtime;
\* otherwise the runtime removes the container, or reports that there is none,
\* or fails. The result is dropped.
DeferredRemoveEscalate ==
    /\ pc = "defer"
    /\ defers # <<>>
    /\ Head(defers) = "remove"
    /\ defers' = Tail(defers)
    /\ \E ok \in RtResults :
          /\ calls' = Append(calls, [op |-> "remove",
                                     ok |-> ok /\ container # "removed"])
          /\ container' = IF ok THEN "removed" ELSE container
          /\ removeRefused' = (removeRefused \/ (~ok /\ ~CtxDone))
          /\ IF ok
             THEN UNCHANGED outVars
             ELSE Fail(StatusInternalServerError, "Failed to remove container")
    /\ UNCHANGED <<variant, text, buf, pc, ctx, bufVars, logStream, clientGone,
                   raceOrder, atDeadline, connVars, taskVars>>

DeferredRemove ==
    /\ pc = "defer"
    /\ defers # <<>>
    /\ Head(defers) = "remove"
    /\ defers' = Tail(defers)
    /\ \E ok \in RtResults :
          /\ calls' = Append(calls, [op |-> "remove",
                                     ok |-> ok /\ container # "removed"])
          /\ container' = IF ok THEN "removed" ELSE container
          /\ removeRefused' = (removeRefused \/ (~ok /\ ~CtxDone))
    /\ UNCHANGED <<variant, text, buf, pc, ctx, bufVars, outVars, logStream, clientGone,
                   raceOrder, atDeadline, connVars, taskVars>>

\* cancel()
DeferredCancel ==
    /\ pc = "defer"
    /\ defers # <<>>
    /\ Head(defers) = "cancel"
    /\ defers' = Tail(defers)
    /\ ctx' = IF ctx = "live" THEN "cancelled" ELSE ctx
    /\ UNCHANGED <<variant, text, buf, pc, calls, bufVars, outVars, envVars, connVars, taskVars>>

\* cli.Close()
DeferredCliClose ==
    /\ pc = "defer"
    /\ defers # <<>>
    /\ Head(defers) = "cliClose"
    /\ defers' = Tail(defers)
    /\ cliClosed' = TRUE
    /\ UNCHANGED <<variant, text, buf, pc, ctx, calls, bufVars, outVars, envVars, connClosed,
                   taskVars>>

\* conn.Close()
DeferredConnClose ==
    /\ pc = "defer"
    /\ defers # <<>>
    /\ Head(defers) = "connClose"
    /\ defers' = Tail(defers)
    /\ connClosed' = TRUE
    /\ UNCHANGED <<variant, text, buf, pc, ctx, calls, bufVars, outVars, envVars, cliClosed,
                   taskVars>>

\* tw.Close(), reader.Close(), logs.Close()
DeferredClose ==
    /\ pc = "defer"
    /\ defers # <<>>
    /\ Head(defers) \in {"twClose", "readerClose", "logsClose"}
    /\ defers' = Tail(defers)
    /\ UNCHANGED <<variant, text, buf, pc, ctx, calls, bufVars, outVars, envVars, connVars,
                   taskVars>>

\* The handler returns once every deferred call has run.
HandlerReturn ==
    /\ pc = "defer"
    /\ defers = <<>>
    /\ pc' = "returned"
    /\ UNCHANGED <<variant, text, buf, defers, ctx, calls, bufVars, outVars, envVars,
                   connVars, taskVars>>

(***************************************************************************)
(* The environment: the clock, the program in the container, the runtime,  *)
(* the client                                                              *)
(***************************************************************************)

\* The 30 s of context.WithTimeout pass.
DeadlineExpire ==
    /\ ctx = "live"
    /\ ctx' = "expired"
    /\ raceOrder' = IF raceOrder = "none" /\ waitRes = "pending"
                    THEN "deadline" ELSE raceOrder
    /\ atDeadline' = IF pc = "stdcopy" THEN "stdcopy" ELSE "elsewhere"
    /\ UNCHANGED <<variant, text, buf, pc, defers, calls, bufVars, outVars, container,
                   logStream, clientGone, removeRefused, connVars, taskVars>>

\* The program writes a chunk to stdout or stderr.
Produce ==
    /\ container = "running"
    /\ Len(logStream) < MaxChunks
    /\ \E s \in Streams :
          logStream' = Append(logStream, [stream |-> s, seq |-> Len(logStream) + 1])
    /\ UNCHANGED <<variant, text, buf, pc, defers, ctx, calls, bufVars, outVars, container,
                   clientGone, raceOrder, atDeadline, removeRefused, connVars,
                   taskVars>>

\* The program exits.
ContainerExit ==
    /\ container = "running"
    /\ container' = "exited"
    /\ UNCHANGED <<variant, text, buf, pc, defers, ctx, calls, bufVars, outVars, logStream,
                   clientGone, raceOrder, atDeadline, removeRefused, connVars,
                   taskVars>>

\* HostConfig.AutoRemove: the runtime removes the exited container.
AutoRemove ==
    /\ container = "exited"
    /\ container' = "removed"
    /\ UNCHANGED <<variant, text, buf, pc, defers, ctx, calls, bufVars, outVars, logStream,
                   clientGone, raceOrder, atDeadline, removeRefused, connVars,
                   taskVars>>

\* The runtime reports the exit on statusCh of a pending ContainerWait.
WaitExit ==
    /\ waitRes = "pending"
    /\ container \in {"exited", "removed"}
    /\ ~CtxDone
    /\ waitRes' = "status"
    /\ raceOrder' = IF raceOrder = "none" THEN "exit" ELSE raceOrder
    /\ UNCHANGED atDeadline
    /\ UNCHANGED <<variant, text, buf, pc, defers, ctx, calls, bufVars, outVars, container,
                   logStream, clientGone, removeRefused, connVars, done, waitPc,
                   waitCase, logPc>>

\* A pending ContainerWait fails: errCh receives the error (of the runtime, or
\* of ctx once it is done).
WaitError ==
    /\ waitRes = "pending"
    /\ waitRes' = "err"
    /\ UNCHANGED <<variant, text, buf, pc, defers, ctx, calls, bufVars, outVars, envVars,
                   connVars, done, waitPc, waitCase, logPc>>

\* The client disconnects.
ClientDisconnect ==
    /\ ~clientGone
    /\ pc \notin {"upgrade", "decode", "returned"}
    /\ clientGone' = TRUE
    /\ UNCHANGED <<variant, text, buf, pc, defers, ctx, calls, bufVars, outVars, container,
                   logStream, raceOrder, atDeadline, removeRefused, connVars,
                   taskVars>>

(***************************************************************************)
(* Specification                                                           *)
(***************************************************************************)
Handler ==
    \/ Upgrade \/ ReadInput \/ NewClient \/ NewContext \/ ContainerCreate
    \/ Package \/ CopyToContainer \/ ContainerStart
    \/ ContainerLogs \/ LoopSelect \/ StdCopyFrame \/ StdCopyEOF \/ StdCopyError
    \/ StdCopyErrorFlush \/ WriteStdout \/ WriteStdoutFlush \/ WriteStderr
    \/ WriteStderrFlush \/ MainWritePanic
    \/ Spawn \/ RecvDone
    \/ ContainerWait \/ HttpSelect \/ HttpLogs \/ HttpStdCopyFrame
    \/ HttpStdCopyEOF \/ HttpStdCopyError \/ Respond
    \/ DeferredRemove \/ DeferredCancel \/ DeferredCliClose \/ DeferredConnClose
    \/ DeferredClose \/ HandlerReturn

WaitTask ==
    \/ WaitCall \/ WaitSelect \/ WaitWrite \/ WaitWriteFlush \/ WaitWritePanic
    \/ WaitCloseDone

LogTask == LogOpen \/ Scan \/ ScanEOF \/ ScanError \/ LogWriteJSON \/ LogCloseDone

Environment ==
    \/ DeadlineExpire \/ Produce \/ ContainerExit \/ AutoRemove
    \/ WaitExit \/ WaitError \/ ClientDisconnect

Next == Handler \/ WaitTask \/ LogTask \/ Environment

Spec == Init /\ [][Next]_vars

\* The packaging on its own, for every source text: the handler stands before
\* tar.NewWriter, the container created, and packages the text it was sent.
PackInit ==
    /\ variant \in Variants
    /\ text \in Texts
    /\ buf = <<>>
    /\ pc = "package"
    /\ defers = <<"twClose", "remove">>
                    \o (IF variant = "ws0" THEN <<>> ELSE <<"cancel">>)
                    \o <<"cliClose">>
                    \o (IF variant = "http" THEN <<>> ELSE <<"connClose">>)
    /\ ctx = IF variant = "ws0" THEN "background" ELSE "live"
    /\ container = "created"
    /\ calls = <<[op |-> "create", ok |-> TRUE]>>
    /\ logStream = <<>>
    /\ readPos = 0
    /\ stdout = <<>>
    /\ stderr = <<>>
    /\ stdCopyBuf = <<>>
    /\ line = <<>>
    /\ wire = <<>>
    /\ writeErr = FALSE
    /\ writeBuf = NoFrame
    /\ racing = {}
    /\ connClosed = FALSE
    /\ cliClosed = FALSE
    /\ clientGone = FALSE
    /\ respStatus = 0
    /\ done = FALSE
    /\ waitPc = "idle"
    /\ waitRes = "none"
    /\ waitCase = "none"
    /\ logPc = "idle"
    /\ raceOrder = "none"
    /\ atDeadline = "none"
    /\ removeRefused = FALSE

PackSpec == PackInit /\ [][Package]_vars

\* The scheduler runs every goroutine that can take a step, the clock reaches the
\* deadline, and a read or a wait under a ctx that is done fails. That the
\* program exits or writes, that the runtime fails, that the client leaves, is
\* not assumed, and neither that a write panics.
FairHandler ==
    \/ Upgrade \/ ReadInput \/ NewClient \/ NewContext \/ ContainerCreate
    \/ Package \/ CopyToContainer \/ ContainerStart
    \/ ContainerLogs \/ LoopSelect \/ StdCopyFrame \/ StdCopyEOF
    \/ (CtxDone /\ StdCopyError) \/ StdCopyErrorFlush
    \/ WriteStdout \/ WriteStdoutFlush \/ WriteStderr \/ WriteStderrFlush
    \/ Spawn \/ RecvDone
    \/ ContainerWait \/ HttpSelect \/ HttpLogs \/ HttpStdCopyFrame
    \/ HttpStdCopyEOF \/ (CtxDone /\ HttpStdCopyError) \/ Respond
    \/ DeferredRemove \/ DeferredCancel \/ DeferredCliClose \/ DeferredConnClose
    \/ DeferredClose \/ HandlerReturn

FairLogTask == LogOpen \/ Scan \/ ScanEOF \/ LogWriteJSON \/ LogCloseDone

FairWaitTask == WaitCall \/ WaitSelect \/ WaitWrite \/ WaitWriteFlush \/ WaitCloseDone

FairSpec ==
    /\ Spec
    /\ WF_vars(FairHandler)
    /\ WF_vars(FairWaitTask)
    /\ WF_vars(FairLogTask)
    /\ WF_vars(DeadlineExpire)
    /\ WF_vars(CtxDone /\ WaitError)

(***************************************************************************)
(* Vocabulary of the properties                                            *)
(***************************************************************************)

\* Number of runtime-client calls of op issued so far.
Count(op) == Cardinality({i \in DOMAIN calls : calls[i].op = op})

\* A call of op was issued and failed / succeeded.
Failed(op) == \E i \in DOMAIN calls : calls[i].op = op /\ ~calls[i].ok
Succeeded(op) == \E i \in DOMAIN calls : calls[i].op = op /\ calls[i].ok

\* The handler has left its body: its deferred calls run, or it has returned.
Leaving == pc \in {"defer", "returned"}

\* A terminal status that reached the wire: a close frame or a response body.
IsSignal(w) == w.ok /\ w.type \in {"close", "body"}
Signals == SelectSeq(wire, IsSignal)

\* A text frame that reached the wire.
IsTextFrame(w) == w.ok /\ w.type = "text"
TextFrames == SelectSeq(wire, IsTextFrame)

\* The status code the http client is answered with: the header written, or
\* 200 when the handler returns without writing one.
AnsweredStatus == IF respStatus = 0 THEN StatusOK ELSE respStatus

TimeoutSignalled ==
    \E i \in DOMAIN wire : wire[i].ok /\ wire[i].status = StatusRequestTimeout

IsPrefix(a, b) == Len(a) <= Len(b) /\ SubSeq(b, 1, Len(a)) = a

RECURSIVE Flatten(_)
Flatten(frames) ==
    IF frames = <<>> THEN <<>> ELSE Head(frames).chunks \o Flatten(Tail(frames))

\* The chunks of stream s the runtime produced / the client was sent, in order.
Produced(s) ==
    LET OfStream(c) == c.stream = s IN SelectSeq(logStream, OfStream)
Delivered(s) ==
    LET OfStream(c) == c.stream = s IN SelectSeq(Flatten(TextFrames), OfStream)

(***************************************************************************)
(* Properties                                                              *)
(***************************************************************************)

C2_NoContainerAfterTimeout ==
    pc = "returned" /\ waitCase = "timeout" /\ ~removeRefused => ~ContainerExists

\* C3: the caller is signalled at most one terminal status (close frame or
\* response body) per session, and the synchronous handler that has left its
\* body has written exactly one response body to a client that is still there.
C3_OneTerminalStatus ==
    /\ Len(Signals) <= 1
    /\ variant = "http" /\ Leaving /\ ~clientGone => Len(Signals) = 1

\* C4: when the runtime reported the exit before the deadline expired, no
\* timeout status is sent; when the deadline expired first, the finished
\* session has sent the timeout status (to a client that is still there).
C4_ExitOrDeadlineDecides ==
    /\ raceOrder = "exit" => ~TimeoutSignalled
    /\ raceOrder = "deadline" /\ pc = "returned" /\ waitPc \in {"idle", "exit"}
          /\ ~clientGone => TimeoutSignalled

\* The wait goroutine of execute.go has sent its Request Timeout message and
\* closed done.
TimedOutMarked ==
    /\ variant = "ws"
    /\ done
    /\ \E i \in DOMAIN wire :
          wire[i].status = StatusRequestTimeout /\ wire[i].ok

\* C5: once the Request Timeout close frame is sent and done is closed, no
\* further text frame reaches the client.
C5_NoChunkAfterTimeout == [][TimedOutMarked => TextFrames' = TextFrames]_vars

\* C5 witness: after the Request Timeout frame the forwarding loop tried to
\* write a text frame, and the write was refused.
C5_Witness ==
    /\ TimedOutMarked
    /\ \E i, j \in DOMAIN wire :
          /\ i < j
          /\ wire[i].status = StatusRequestTimeout /\ wire[i].ok
          /\ wire[j].type = "text" /\ ~wire[j].ok

\* C6: when the client of a streaming session disconnects while the container
\* runs, the handler eventually returns with the forced remove issued.
C6_DisconnectEndsSession ==
    (variant \in {"ws", "ws0"} /\ clientGone /\ container = "running")
        ~> (pc = "returned" /\ Count("remove") = 1)

\* C7: the synchronous handler answers with the status code of its outcome
\* (200, 400, 500, 408), and a failed creation with 500 and the message
\* "Failed to create container".
C7_StatusCodes ==
    variant = "http" /\ pc = "returned" =>
        /\ wire # <<>>
        /\ AnsweredStatus = wire[1].status
        /\ Failed("create") =>
              wire[1].msg = "Failed to create container" /\ AnsweredStatus = 500

\* The handler has reported an error to the caller: its last write is a close
\* frame or an error envelope with status 400 or 500, which reached the wire
\* unless the client is gone.
ErrorReported ==
    /\ wire # <<>>
    /\ wire[Len(wire)].by = "main"
    /\ wire[Len(wire)].type \in {"close", "body"}
    /\ wire[Len(wire)].status \in {StatusBadRequest, StatusInternalServerError}
    /\ ~clientGone => wire[Len(wire)].ok

\* C8: without a successful ContainerCreate no copy, start, logs, wait or
\* remove is ever issued, and a handler that ends there has reported an error.
C8_NothingAfterFailedCreate ==
    ~Succeeded("create") =>
        /\ \A op \in {"copy", "start", "logs", "wait", "remove"} : Count(op) = 0
        /\ Leaving => ErrorReported

\* C8 witness: the handler has returned after a failed ContainerCreate.
C8_Witness == pc = "returned" /\ Failed("create") /\ ErrorReported

\* C9: after a failed CopyToContainer no start is issued, after a failed copy
\* or start no logs and no wait; the handler reports the error, and has issued
\* the forced remove once when it has returned.
C9_AbortAfterInjectOrStartFailure ==
    /\ Failed("copy") => Count("start") = 0
    /\ Failed("copy") \/ Failed("start") =>
          /\ Count("logs") = 0 /\ Count("wait") = 0
          /\ Leaving => ErrorReported
          /\ pc = "returned" => Count("remove") = 1

\* C9 witness: the handler of execute.go has returned after a failed start.
C9_Witness ==
    /\ variant = "ws"
    /\ pc = "returned"
    /\ Failed("start")
    /\ Succeeded("copy")
    /\ Count("remove") = 1

\* C10: in the streaming handlers the chunks of stdout, and those of stderr,
\* reach the client in the order the runtime produced them, none twice: what
\* was delivered of a stream is a prefix of what was produced of it.
C10_PerStreamOrder ==
    variant \in {"ws", "ws0"} =>
        \A s \in Streams : IsPrefix(Delivered(s), Produced(s))

\* C11: in execute.go every status that reaches the client is Bad Request,
\* Request Timeout or Internal Server Error; an unreadable payload is answered
\* with Bad Request; and a finished session whose deadline expired while the
\* program still ran has sent Request Timeout and no other status (to a client
\* that is still there). The deadline is the cause when it expired with the
\* handler reading the logs and the wait pending, nothing having failed.
C11_CloseFrameMatchesCause ==
    variant = "ws" =>
        /\ \A i \in DOMAIN Signals :
              Signals[i].status \in {StatusBadRequest, StatusRequestTimeout,
                                     StatusInternalServerError}
        /\ Leaving /\ calls = <<>> /\ defers = <<>> /\ Len(wire) = 1 =>
              wire[1].status \in {StatusBadRequest, StatusInternalServerError}
        /\ pc = "returned" /\ waitPc = "exit" /\ raceOrder = "deadline"
              /\ atDeadline = "stdcopy" /\ container = "running" /\ ~clientGone =>
              /\ Signals # <<>>
              /\ \A i \in DOMAIN Signals : Signals[i].status = StatusRequestTimeout

\* A success response of part_001 that reached the client.
IsSuccess(w) == w.ok /\ w.type = "body" /\ w.msg = "success"

\* C12: part_001 answers "success" only after the select took the exit from
\* statusCh, with the process gone, and the output of the response is all the
\* chunks the program produced, stdout and stderr in one sequence, in the order
\* they were produced.
C12_SuccessCarriesWholeOutput ==
    \A i \in DOMAIN wire :
        IsSuccess(wire[i]) =>
            /\ variant = "http"
            /\ waitCase = "status"
            /\ container \in {"exited", "removed"}
            /\ wire[i].chunks = logStream

\* C12 witness: a success response carries a stdout chunk and a stderr chunk.
C12_Witness ==
    \E i \in DOMAIN wire :
        /\ IsSuccess(wire[i])
        /\ Len(wire[i].chunks) = 2
        /\ wire[i].chunks[1].stream # wire[i].chunks[2].stream

\* archive/tar's Reader over the blocks of an archive: the entries up to the
\* first block that is no header, each with the first size bytes of the blocks
\* that follow its header.
RECURSIVE Join(_)
Join(blocks) ==
    IF blocks = <<>> THEN <<>> ELSE Head(blocks).bytes \o Join(Tail(blocks))

RECURSIVE Untar(_)
Untar(ar) ==
    IF ar = <<>> \/ Head(ar).kind # "header" THEN <<>>
    ELSE LET h == Head(ar)
             n == (h.size + BlockSize - 1) \div BlockSize
         IN  IF Len(ar) < n + 1 THEN <<>>
             ELSE <<[name |-> h.name, mode |-> h.mode, size |-> h.size,
                     data |-> SubSeq(Join(SubSeq(ar, 2, n + 1)), 1, h.size)]>>
                     \o Untar(SubSeq(ar, n + 2, Len(ar)))

\* C13: once the text is packaged, the archive holds exactly one entry, named
\* main.go, of mode 0644, whose declared size is the number of bytes of the
\* text and whose unpacked contents are the text, the empty text included.
C13_ArchiveRoundTrip ==
    pc = "copy" =>
        Untar(buf) = <<[name |-> "main.go", mode |-> FileMode, size |-> Len(text),
                       data |-> text]>>

\* C13 witness: a text of more than one block that ends in a zero byte has
\* been packaged.
C13_Witness ==
    /\ pc = "copy"
    /\ Len(text) > BlockSize
    /\ Len(text) % BlockSize # 0
    /\ text[Len(text)] = 0
    /\ Len(buf) > 4

\* C14: once the container has been started the handler eventually returns,
\* whatever becomes of the log task and of the wait task (a session whose
\* process a panic has ended apart).
C14_HandlerReturns ==
    Succeeded("start") ~> pc \in {"returned", "crashed"}

\* C15: every runtime-client call of a session, from ContainerCreate on, is
\* made under a ctx that carries the deadline of the session.
C15_CallsUnderDeadline ==
    calls # <<>> => ctx \in {"live", "expired", "cancelled"}

\* C16: the steps of a session come in the order package, create, inject,
\* start, stream and wait, cleanup: the archive is complete when ContainerCreate
\* is issued, and no call is issued before the one before it has succeeded.
C16_LifecycleOrder ==
    /\ Count("create") > 0 => Untar(buf) # <<>>
    /\ Count("copy") > 0 => Succeeded("create")
    /\ Count("start") > 0 => Succeeded("copy")
    /\ Count("logs") > 0 \/ Count("wait") > 0 => Succeeded("start")
    /\ Count("remove") > 0 => Succeeded("create") /\ pc # "package"

\* What the handler itself has written to the client.
IsByMain(w) == w.by = "main"
MainWrites == SelectSeq(wire, IsByMain)

\* C17: the step that calls ContainerRemove writes nothing to the client and
\* leaves the status of the response as it is, whatever the call returns, and
\* the handler writes nothing after it.
C17_RemoveResultNotEscalated ==
    [][/\ Count("remove")' # Count("remove") =>
             wire' = wire /\ respStatus' = respStatus
       /\ Count("remove") > 0 => MainWrites' = MainWrites]_vars

\* C17 witness: the remove call has failed and the handler has returned, the
\* one status it had sent before still the only one.
C17_Witness ==
    /\ pc = "returned"
    /\ Failed("remove")
    /\ Len(MainWrites) = 1
    /\ Len(Signals) = 1

\* C18: the forwarding loop and the wait goroutine are never both inside a
\* write to the websocket connection.
C18_OneWriterAtATime == ~(Pending("main") /\ Pending("wait"))

\* A step taken after the streaming handler has returned finds no
\* ContainerWait pending, and neither calls a write on the connection nor
\* issues a runtime-client call.
QuietAfterReturn ==
    variant \in {"ws", "ws0"} /\ pc = "returned" =>
        /\ waitRes # "pending"
        /\ wire' = wire
        /\ calls' = calls

\* C19: once the streaming handler has returned, no ContainerWait of the
\* session is pending, and no goroutine of the session calls a write on the
\* connection or issues a runtime-client call any more.
C19_QuietAfterReturn == [][QuietAfterReturn]_vars

====
